---- MODULE Spec2Model ----
(***************************************************************************)
(* Model of video/vaapi.c (mpv): the VA-API image-format registry, the     *)
(* per-surface VAImage cache and the upload / download transfer protocols. *)
(* The VA driver is the environment: every driver call returns a status    *)
(* chosen nondeterministically, and moves pixel data faithfully when it    *)
(* succeeds.                                                               *)
(***************************************************************************)
EXTENDS Integers, Sequences, FiniteSets, TLC

(* ---------------------------------------------------------------- bounds *)

\* Longest format list a driver reports from vaQueryImageFormats().
MaxFormats == 3
\* The most images of the pool a caller holds at one time.
MaxSurfaces == 2

(* ------------------------------------------------------------- constants *)

\* 0xffffffff, the id no surface and no image has; as a 32-bit int it is -1.
VA_INVALID_ID == -1

VA_FOURCC_YV12 == "YV12"
VA_FOURCC_I420 == "I420"
VA_FOURCC_IYUV == "IYUV"
VA_FOURCC_NV12 == "NV12"
VA_FOURCC_UYVY == "UYVY"
VA_FOURCC_YUY2 == "YUY2"
VA_FOURCC_RGBA == "RGBA"
VA_FOURCC_RGBX == "RGBX"
VA_FOURCC_BGRA == "BGRA"
VA_FOURCC_BGRX == "BGRX"
\* A fourcc libva knows and va_to_imgfmt does not list.
VA_FOURCC_ARGB == "ARGB"
\* The fourcc of the table's terminating entry, and of "no fourcc".
NoFourcc == "0"

IMGFMT_NONE == "IMGFMT_NONE"
IMGFMT_420P == "IMGFMT_420P"
IMGFMT_NV12 == "IMGFMT_NV12"
IMGFMT_UYVY == "IMGFMT_UYVY"
IMGFMT_YUYV == "IMGFMT_YUYV"
IMGFMT_RGBA == "IMGFMT_RGBA"
IMGFMT_BGRA == "IMGFMT_BGRA"
\* A software format va_to_imgfmt does not list.
IMGFMT_444P == "IMGFMT_444P"
\* The format of an mp_image that stands for a va_surface.
IMGFMT_VAAPI == "IMGFMT_VAAPI"

\* Every generic pixel format a caller may name.
ImgFmts ==
    {IMGFMT_NONE, IMGFMT_420P, IMGFMT_NV12, IMGFMT_UYVY, IMGFMT_YUYV,
     IMGFMT_RGBA, IMGFMT_BGRA, IMGFMT_444P}

(* ------------------------------------------------------ format translator *)

va_to_imgfmt ==
    << [va |-> VA_FOURCC_YV12, mp |-> IMGFMT_420P],
       [va |-> VA_FOURCC_I420, mp |-> IMGFMT_420P],
       [va |-> VA_FOURCC_IYUV, mp |-> IMGFMT_420P],
       [va |-> VA_FOURCC_NV12, mp |-> IMGFMT_NV12],
       [va |-> VA_FOURCC_UYVY, mp |-> IMGFMT_UYVY],
       [va |-> VA_FOURCC_YUY2, mp |-> IMGFMT_YUYV],
       [va |-> VA_FOURCC_RGBA, mp |-> IMGFMT_RGBA],
       [va |-> VA_FOURCC_RGBX, mp |-> IMGFMT_RGBA],
       [va |-> VA_FOURCC_BGRA, mp |-> IMGFMT_BGRA],
       [va |-> VA_FOURCC_BGRX, mp |-> IMGFMT_BGRA],
       [va |-> NoFourcc,       mp |-> IMGFMT_NONE] >>

\* Index of the terminating entry: the scans stop there.
TableEnd ==
    CHOOSE e \in 1..Len(va_to_imgfmt) :
        /\ va_to_imgfmt[e].va = NoFourcc
        /\ \A j \in 1..(e - 1) : va_to_imgfmt[j].va # NoFourcc

\* The first index of the matching ones (a scan returns at its first match), or 0.
FirstIndex(hits) ==
    IF hits = {} THEN 0 ELSE CHOOSE i \in hits : \A j \in hits : i <= j

va_fourcc_to_imgfmt(fourcc) ==
    LET e == FirstIndex({i \in 1..(TableEnd - 1) : va_to_imgfmt[i].va = fourcc})
    IN  IF e = 0 THEN IMGFMT_NONE ELSE va_to_imgfmt[e].mp

\* va_fourcc_from_imgfmt with the scan keeping the last match, not the first.
va_fourcc_from_imgfmt_last(imgfmt) ==
    LET hits == {i \in 1..(TableEnd - 1) : va_to_imgfmt[i].mp = imgfmt}
    IN  IF hits = {} THEN NoFourcc
        ELSE va_to_imgfmt[CHOOSE i \in hits : \A j \in hits : j <= i].va

va_fourcc_from_imgfmt(imgfmt) ==
    LET e == FirstIndex({i \in 1..(TableEnd - 1) : va_to_imgfmt[i].mp = imgfmt})
    IN  IF e = 0 THEN NoFourcc ELSE va_to_imgfmt[e].va

\* A struct va_image_formats pointer: isnull, or the entries (their fourccs).
NullFormats == [isnull |-> TRUE, entries |-> << >>]

\* Returns the index of the entry the returned pointer points at; 0 is NULL.
va_image_format_from_imgfmt(formats, imgfmt) ==
    LET fourcc == va_fourcc_from_imgfmt(imgfmt)
    IN  IF formats.isnull \/ Len(formats.entries) = 0 \/ fourcc = NoFourcc
        THEN 0
        ELSE FirstIndex({i \in 1..Len(formats.entries) : formats.entries[i] = fourcc})

(* ------------------------------------------------------------ pixel data *)

\* A picture is <<y, u, v>>: one sample of each component stands for a plane.
Blank == <<0, 0, 0>>
\* The pictures callers upload.
Pictures == {<<1, 2, 3>>}

\* The planes of a VAImage of the given fourcc holding the picture, in the
\* driver's physical plane order.
Layout(fourcc, pic) ==
    CASE fourcc = VA_FOURCC_YV12 -> << <<pic[1]>>, <<pic[3]>>, <<pic[2]>> >>
      [] fourcc \in {VA_FOURCC_I420, VA_FOURCC_IYUV} ->
            << <<pic[1]>>, <<pic[2]>>, <<pic[3]>> >>
      [] fourcc = VA_FOURCC_NV12 -> << <<pic[1]>>, <<pic[2], pic[3]>> >>
      [] fourcc = VA_FOURCC_UYVY -> << <<pic[2], pic[1], pic[3], pic[1]>> >>
      [] fourcc = VA_FOURCC_YUY2 -> << <<pic[1], pic[2], pic[1], pic[3]>> >>
      [] fourcc \in {VA_FOURCC_RGBA, VA_FOURCC_RGBX,
                     VA_FOURCC_BGRA, VA_FOURCC_BGRX} ->
            << <<pic[1], pic[2], pic[3]>> >>
      [] OTHER -> << >>

\* The picture that planes of the given fourcc hold.
Unlayout(fourcc, planes) ==
    CASE fourcc = VA_FOURCC_YV12 -> <<planes[1][1], planes[3][1], planes[2][1]>>
      [] fourcc \in {VA_FOURCC_I420, VA_FOURCC_IYUV} ->
            <<planes[1][1], planes[2][1], planes[3][1]>>
      [] fourcc = VA_FOURCC_NV12 -> <<planes[1][1], planes[2][1], planes[2][2]>>
      [] fourcc = VA_FOURCC_UYVY -> <<planes[1][2], planes[1][1], planes[1][3]>>
      [] fourcc = VA_FOURCC_YUY2 -> <<planes[1][1], planes[1][2], planes[1][4]>>
      [] fourcc \in {VA_FOURCC_RGBA, VA_FOURCC_RGBX,
                     VA_FOURCC_BGRA, VA_FOURCC_BGRX} ->
            <<planes[1][1], planes[1][2], planes[1][3]>>
      [] OTHER -> Blank

\* A software mp_image: its format and its planes in the generic order.
NoImage == [imgfmt |-> IMGFMT_NONE, planes |-> << >>]

SwPlanes(imgfmt, pic) ==
    CASE imgfmt \in {IMGFMT_420P, IMGFMT_444P} ->
            << <<pic[1]>>, <<pic[2]>>, <<pic[3]>> >>
      [] imgfmt = IMGFMT_NV12 -> << <<pic[1]>>, <<pic[2], pic[3]>> >>
      [] imgfmt = IMGFMT_UYVY -> << <<pic[2], pic[1], pic[3], pic[1]>> >>
      [] imgfmt = IMGFMT_YUYV -> << <<pic[1], pic[2], pic[1], pic[3]>> >>
      [] OTHER -> << <<pic[1], pic[2], pic[3]>> >>

SwImage(imgfmt, pic) == [imgfmt |-> imgfmt, planes |-> SwPlanes(imgfmt, pic)]

\* va_image_map: for each plane p of the mp_image, the plane of the VAImage that
\* planes[p] and stride[p] point at (1-based).
PlaneIdentity(fourcc) == [p \in 1..Len(Layout(fourcc, Blank)) |-> p]

\* va_image_map with the swap made for every fourcc of IMGFMT_420P.
va_image_map_by_imgfmt(fourcc) ==
    LET direct == PlaneIdentity(fourcc)
    IN  IF va_fourcc_to_imgfmt(fourcc) = IMGFMT_420P
        THEN [direct EXCEPT ![2] = direct[3], ![3] = direct[2]]
        ELSE direct

va_image_map(fourcc) ==
    LET direct == PlaneIdentity(fourcc)
    IN  IF fourcc = VA_FOURCC_YV12
        THEN [direct EXCEPT ![2] = direct[3], ![3] = direct[2]]
        ELSE direct

\* mp_image_copy(&img, mpi) through the mapped pointers: the VAImage planes
\* after the copy.
CopyIn(map, src) ==
    [b \in 1..Len(map) |-> src[CHOOSE p \in 1..Len(map) : map[p] = b]]

\* mp_image_copy(dst, &tmp) through the mapped pointers: the planes of dst.
CopyOut(map, planes) == [p \in 1..Len(map) |-> planes[map[p]]]

(* ------------------------------------------------------------ environment *)

\* The fourccs a driver may report, derive and create.
DriverFourccs == {VA_FOURCC_YV12, VA_FOURCC_I420, VA_FOURCC_NV12, VA_FOURCC_ARGB}

\* The lists vaQueryImageFormats() may report: no fourcc twice.
Registries ==
    UNION { { r \in [1..n -> DriverFourccs] :
                \A i, j \in 1..n : i # j => r[i] # r[j] } : n \in 0..MaxFormats }

\* What vaDeriveImage() may answer: failure, or an image of some fourcc whose
\* size is or is not the surface's.
DeriveOutcomes ==
    {[ok |-> FALSE, fourcc |-> NoFourcc, size_ok |-> FALSE]} \cup
    [ok : {TRUE}, fourcc : DriverFourccs, size_ok : BOOLEAN]

\* The images passed to va_surface_upload().
UploadImages ==
    {SwImage(f, pic) : f \in {IMGFMT_420P, IMGFMT_NV12, IMGFMT_RGBA, IMGFMT_444P},
                       pic \in Pictures}

\* The formats passed to va_surface_image_alloc_imgfmt().
AllocFormats == {IMGFMT_420P, IMGFMT_NV12, IMGFMT_444P}

\* One driver call and whether it returned VA_STATUS_SUCCESS.
Call(name, ok) == [c |-> name, ok |-> ok]

(* ----------------------------------------------------------------- state *)

VARIABLES
    ctx,            \* "NULL" or "live": the mp_vaapi_ctx va_initialize returned
    image_formats,  \* ctx->image_formats
    discoveries,    \* runs of va_get_formats for the current context
    surface,        \* "NULL" or "live": the va_surface
    image,          \* surface->p->image: image_id and format.fourcc
    is_derived,     \* surface->p->is_derived
    surfmem,        \* driver: the picture the surface holds
    imgbuf,         \* driver: the planes of the VAImage made by vaCreateImage
    live,           \* driver: ids of the VAImages created and not yet destroyed
    mapped,         \* driver: the image buffer was mapped by a vaMapBuffer and
                    \* vaUnmapBuffer was not called on it since
    pc,             \* position of the running operation, "idle" between two
    ret,            \* where va_surface_image_alloc returns to
    format,         \* the fourcc of the VAImageFormat in use
    idx,            \* va_surface_download: 0 on the cached format, else loop i+1
    mpi,            \* va_surface_upload: the source image
    ia_ok,          \* va_surface_image_alloc returned non-NULL
    op,             \* the operation running, or the last one run
    calls,          \* the driver calls of the operation, or of the try_download
                    \* call under way, in order
    tried,          \* va_surface_download: the try_download calls, in order
    result,         \* "none", "ok" or "fail": what the operation returned
    dst,            \* va_surface_download: the image returned
    onlyMismatch,   \* every vaDeriveImage on this surface succeeded, mismatching
    uploaded,       \* the image of the upload that succeeded just before
    view_from,      \* the driver call that made the stored VAImage, or "none"
    ia_failed,      \* va_surface_image_alloc returned NULL on this surface
    pool,           \* the images of the mp_image_pool, least recently used first
    pool_req,       \* the <<fmt, w, h>> asked of the pool so far
    pool_peak       \* the most images of the pool referenced at one time

ctxVars == <<ctx, image_formats, discoveries>>
viewVars == <<image, is_derived>>
drvVars == <<surfmem, imgbuf, live, mapped>>
locals == <<ret, format, idx, ia_ok, mpi>>
ctlVars == <<pc, result, locals>>
obsVars == <<op, calls, tried, dst, onlyMismatch, uploaded>>
histVars == <<view_from, ia_failed>>
poolVars == <<pool, pool_req, pool_peak>>
vars == <<ctxVars, surface, viewVars, drvVars, ctlVars, obsVars, histVars, poolVars>>

\* No VAImage is stored. The format of an image whose id is VA_INVALID_ID is
\* never read (the id is tested first), so the model clears it with the id.
NoView == [image_id |-> VA_INVALID_ID, fourcc |-> NoFourcc]

Init ==
    /\ ctx = "NULL"
    /\ image_formats = NullFormats
    /\ discoveries = 0
    /\ surface = "NULL"
    /\ image = NoView
    /\ is_derived = FALSE
    /\ surfmem = Blank
    /\ imgbuf = << >>
    /\ live = {}
    /\ mapped = FALSE
    /\ pc = "idle"
    /\ ret = "idle"
    /\ format = NoFourcc
    /\ idx = 0
    /\ mpi = NoImage
    /\ ia_ok = FALSE
    /\ op = "none"
    /\ calls = << >>
    /\ tried = << >>
    /\ result = "none"
    /\ dst = NoImage
    /\ onlyMismatch = TRUE
    /\ uploaded = NoImage
    /\ view_from = "none"
    /\ ia_failed = FALSE
    /\ pool = << >>
    /\ pool_req = {}
    /\ pool_peak = 0

\* An operation begins: what every entry point records.
Begin(name) ==
    /\ op' = name
    /\ tried' = << >>
    /\ dst' = NoImage

\* The operation returns: its locals go out of scope.
Return(r) ==
    /\ pc' = "idle"
    /\ result' = r
    /\ ret' = "idle"
    /\ format' = NoFourcc
    /\ idx' = 0
    /\ ia_ok' = FALSE
    /\ mpi' = NoImage

\* The operation goes on at the given position.
Goto(position) ==
    /\ pc' = position
    /\ UNCHANGED <<result, locals>>

\* Call va_surface_image_alloc(surface, format) and come back at `back`.
CallImageAlloc(fourcc, back) ==
    /\ pc' = "image_alloc"
    /\ format' = fourcc
    /\ ret' = back
    /\ UNCHANGED <<result, idx, ia_ok>>

\* The id the driver gives the next VAImage.
NewId == CHOOSE i \in 1..(Cardinality(live) + 1) :
            i \notin live /\ \A j \in 1..(i - 1) : j \in live

(* ------------------------------------------------------ context lifecycle *)

\* va_get_formats with the status of vaQueryImageFormats() not checked.
va_get_formats_unchecked(status, reported) ==
    [isnull |-> FALSE, entries |-> reported]

\* ctx->image_formats after va_get_formats, given the status of
\* vaQueryImageFormats() and the list it reported.
va_get_formats(status, reported) ==
    IF ~status
    THEN NullFormats
    ELSE [isnull |-> FALSE, entries |-> reported]

va_initialize ==
    /\ pc = "idle" /\ ctx = "NULL" /\ surface = "NULL"
    /\ Begin("va_initialize")
    /\ \E init_ok \in BOOLEAN, status \in BOOLEAN, reported \in Registries :
         LET formats == va_get_formats(status, reported)
         IN  IF ~init_ok
             THEN /\ calls' = <<Call("vaInitialize", FALSE)>>
                  /\ UNCHANGED ctxVars
                  /\ Return("fail")
             ELSE IF formats.isnull
             THEN /\ calls' = <<Call("vaInitialize", TRUE),
                                Call("vaQueryImageFormats", status),
                                Call("vaTerminate", TRUE)>>
                  /\ UNCHANGED ctxVars
                  /\ Return("fail")
             ELSE /\ calls' = <<Call("vaInitialize", TRUE),
                                Call("vaQueryImageFormats", status)>>
                  /\ ctx' = "live"
                  /\ image_formats' = formats
                  /\ discoveries' = discoveries + 1
                  /\ Return("ok")
    /\ UNCHANGED <<surface, viewVars, drvVars, onlyMismatch, uploaded>>
    /\ UNCHANGED <<histVars, poolVars>>

va_destroy ==
    /\ pc = "idle" /\ ctx = "live" /\ surface = "NULL"
    /\ Begin("va_destroy")
    /\ calls' = <<Call("vaTerminate", TRUE)>>
    /\ ctx' = "NULL"
    /\ image_formats' = NullFormats
    /\ discoveries' = 0
    /\ Return("ok")
    /\ UNCHANGED <<surface, viewVars, drvVars, onlyMismatch, uploaded>>
    /\ UNCHANGED <<histVars, poolVars>>

(* ------------------------------------------------------ surface lifecycle *)

alloc_surface ==
    /\ pc = "idle" /\ ctx = "live" /\ surface = "NULL"
    /\ Begin("alloc_surface")
    /\ \E ok \in BOOLEAN :
         /\ calls' = <<Call("vaCreateSurfaces", ok)>>
         /\ IF ok
            THEN /\ surface' = "live"
                 /\ image' = NoView
                 /\ is_derived' = FALSE
                 /\ Return("ok")
            ELSE /\ UNCHANGED <<surface, viewVars>>
                 /\ Return("fail")
    /\ UNCHANGED <<ctxVars, drvVars, onlyMismatch, uploaded>>
    /\ view_from' = "none"
    /\ ia_failed' = FALSE
    /\ UNCHANGED poolVars

\* va_surface_destroy with the surface released before its VAImage.
va_surface_destroy_surface_first ==
    /\ pc = "idle" /\ surface = "live"
    /\ Begin("va_surface_destroy")
    /\ \E image_ok \in BOOLEAN, surface_ok \in BOOLEAN :
         IF image.image_id # VA_INVALID_ID
         THEN /\ calls' = <<Call("vaDestroySurfaces", surface_ok),
                            Call("vaDestroyImage", image_ok)>>
              /\ live' = live \ {image.image_id}
         ELSE /\ calls' = <<Call("vaDestroySurfaces", surface_ok)>>
              /\ live' = live
    /\ surface' = "NULL"
    /\ image' = NoView
    /\ is_derived' = FALSE
    /\ surfmem' = Blank
    /\ imgbuf' = << >>
    /\ onlyMismatch' = TRUE
    /\ uploaded' = NoImage
    /\ Return("ok")
    /\ UNCHANGED <<ctxVars, mapped>>
    /\ view_from' = "none"
    /\ ia_failed' = FALSE
    /\ UNCHANGED poolVars

\* va_surface_destroy with the vaDestroyImage() of the stored VAImage left out.
va_surface_destroy_keeps_image ==
    /\ pc = "idle" /\ surface = "live"
    /\ Begin("va_surface_destroy")
    /\ \E image_ok \in BOOLEAN, surface_ok \in BOOLEAN :
         IF image.image_id # VA_INVALID_ID
         THEN /\ calls' = <<Call("vaDestroySurfaces", surface_ok)>>
              /\ live' = live
         ELSE /\ calls' = <<Call("vaDestroySurfaces", surface_ok)>>
              /\ live' = live
    /\ surface' = "NULL"
    /\ image' = NoView
    /\ is_derived' = FALSE
    /\ surfmem' = Blank
    /\ imgbuf' = << >>
    /\ onlyMismatch' = TRUE
    /\ uploaded' = NoImage
    /\ Return("ok")
    /\ UNCHANGED <<ctxVars, mapped>>
    /\ view_from' = "none"
    /\ ia_failed' = FALSE
    /\ UNCHANGED poolVars

\* release_va_surface: the last reference to the surface's mp_image is dropped.
va_surface_destroy ==
    /\ pc = "idle" /\ surface = "live"
    /\ Begin("va_surface_destroy")
    /\ \E image_ok \in BOOLEAN, surface_ok \in BOOLEAN :
         IF image.image_id # VA_INVALID_ID
         THEN /\ calls' = <<Call("vaDestroyImage", image_ok),
                            Call("vaDestroySurfaces", surface_ok)>>
              /\ live' = live \ {image.image_id}
         ELSE /\ calls' = <<Call("vaDestroySurfaces", surface_ok)>>
              /\ live' = live
    /\ surface' = "NULL"
    /\ image' = NoView
    /\ is_derived' = FALSE
    /\ surfmem' = Blank
    /\ imgbuf' = << >>
    /\ onlyMismatch' = TRUE
    /\ uploaded' = NoImage
    /\ Return("ok")
    /\ UNCHANGED <<ctxVars, mapped>>
    /\ view_from' = "none"
    /\ ia_failed' = FALSE
    /\ UNCHANGED poolVars

(* -------------------------------------------------- the surface's VAImage *)

\* ImageCached with the format left out of the test.
ImageCached_never(img, fourcc) == FALSE

\* va_surface_image_alloc, the test that the stored VAImage serves the request.
ImageCached(img, fourcc) ==
    img.image_id # VA_INVALID_ID /\ img.fourcc = fourcc

\* DeriveMatches with the size left out of the test.
DeriveMatches_fourcc_only(outcome, fourcc) == outcome.fourcc = fourcc

\* vaDeriveImage() succeeded: is the derived image the one asked for?
DeriveMatches(outcome, fourcc) ==
    outcome.fourcc = fourcc /\ outcome.size_ok

\* The driver's answer: it derived an image, of another format or size than
\* the one asked for.
DerivedOther(outcome, fourcc) ==
    outcome.ok /\ (outcome.fourcc # fourcc \/ ~outcome.size_ok)

\* va_surface_image_alloc with va_surface_image_destroy leaving is_derived as it
\* was.
va_surface_image_alloc_keeps_flag ==
    /\ pc = "image_alloc"
    /\ IF ImageCached(image, format)
       THEN /\ ia_ok' = TRUE
            /\ pc' = ret
            /\ UNCHANGED <<viewVars, imgbuf, live, calls, view_from>>
       ELSE /\ pc' = "image_derive"
            /\ ia_ok' = FALSE
            /\ IF image.image_id = VA_INVALID_ID
               THEN UNCHANGED <<viewVars, imgbuf, live, calls, view_from>>
               ELSE \E ok \in BOOLEAN :
                      /\ calls' = Append(calls, Call("vaDestroyImage", ok))
                      /\ live' = live \ {image.image_id}
                      /\ image' = NoView
                      /\ is_derived' = is_derived
                      /\ imgbuf' = << >>
                      /\ view_from' = "none"
    /\ UNCHANGED <<ctxVars, surface, surfmem, mapped, result, ret, format, idx, mpi>>
    /\ UNCHANGED <<op, tried, dst, onlyMismatch, uploaded>>
    /\ UNCHANGED <<ia_failed, poolVars>>

\* va_surface_image_alloc up to va_surface_image_destroy: return the stored
\* VAImage if it has the format, else destroy it.
va_surface_image_alloc ==
    /\ pc = "image_alloc"
    /\ IF ImageCached(image, format)
       THEN /\ ia_ok' = TRUE
            /\ pc' = ret
            /\ UNCHANGED <<viewVars, imgbuf, live, calls, view_from>>
       ELSE /\ pc' = "image_derive"
            /\ ia_ok' = FALSE
            /\ IF image.image_id = VA_INVALID_ID
               THEN UNCHANGED <<viewVars, imgbuf, live, calls, view_from>>
               ELSE \E ok \in BOOLEAN :
                      /\ calls' = Append(calls, Call("vaDestroyImage", ok))
                      /\ live' = live \ {image.image_id}
                      /\ image' = NoView
                      /\ is_derived' = FALSE
                      /\ imgbuf' = << >>
                      /\ view_from' = "none"
    /\ UNCHANGED <<ctxVars, surface, surfmem, mapped, result, ret, format, idx, mpi>>
    /\ UNCHANGED <<op, tried, dst, onlyMismatch, uploaded>>
    /\ UNCHANGED <<ia_failed, poolVars>>

\* va_surface_image_alloc, vaDeriveImage() and the check of what it derived.
va_surface_image_alloc_derive ==
    /\ pc = "image_derive"
    /\ \E outcome \in DeriveOutcomes, destroy_ok \in BOOLEAN :
         /\ onlyMismatch' = (onlyMismatch /\ DerivedOther(outcome, format))
         /\ IF ~outcome.ok
            THEN /\ calls' = Append(calls, Call("vaDeriveImage", FALSE))
                 /\ pc' = "image_create"
                 /\ UNCHANGED <<viewVars, live, ia_ok, view_from>>
            ELSE IF DeriveMatches(outcome, format)
            THEN /\ calls' = Append(calls, Call("vaDeriveImage", TRUE))
                 /\ image' = [image_id |-> NewId, fourcc |-> outcome.fourcc]
                 /\ live' = live \cup {NewId}
                 /\ is_derived' = TRUE
                 /\ view_from' = "vaDeriveImage"
                 /\ ia_ok' = TRUE
                 /\ pc' = ret
            ELSE /\ calls' = calls \o <<Call("vaDeriveImage", TRUE),
                                        Call("vaDestroyImage", destroy_ok)>>
                 /\ image' = [image_id |-> NewId, fourcc |-> outcome.fourcc]
                 /\ pc' = "image_create"
                 /\ UNCHANGED <<is_derived, live, ia_ok, view_from>>
    /\ UNCHANGED <<ctxVars, surface, surfmem, imgbuf, mapped>>
    /\ UNCHANGED <<result, ret, format, idx, mpi, op, tried, dst, uploaded>>
    /\ UNCHANGED <<ia_failed, poolVars>>

\* The contents of the buffer of a VAImage vaCreateImage() just made: nothing
\* initialises it.
FreshBuffers(fourcc) == {Layout(fourcc, pic) : pic \in {Blank} \cup Pictures}

\* va_surface_image_alloc_create with image_id not reset to VA_INVALID_ID when
\* vaCreateImage() fails.
va_surface_image_alloc_create_dangling ==
    /\ pc = "image_create"
    /\ \E ok \in BOOLEAN :
         /\ calls' = Append(calls, Call("vaCreateImage", ok))
         /\ IF ok
            THEN /\ image' = [image_id |-> NewId, fourcc |-> format]
                 /\ live' = live \cup {NewId}
                 /\ imgbuf' \in FreshBuffers(format)
                 /\ ia_ok' = TRUE
                 /\ view_from' = "vaCreateImage"
                 /\ UNCHANGED ia_failed
            ELSE /\ image' = image
                 /\ ia_ok' = FALSE
                 /\ ia_failed' = TRUE
                 /\ UNCHANGED <<live, imgbuf, view_from>>
    /\ pc' = ret
    /\ UNCHANGED <<ctxVars, surface, is_derived, surfmem, mapped>>
    /\ UNCHANGED <<result, ret, format, idx, mpi>>
    /\ UNCHANGED <<op, tried, dst, onlyMismatch, uploaded>>
    /\ UNCHANGED poolVars

\* va_surface_image_alloc, the independent allocation after a failed derive.
va_surface_image_alloc_create ==
    /\ pc = "image_create"
    /\ \E ok \in BOOLEAN :
         /\ calls' = Append(calls, Call("vaCreateImage", ok))
         /\ IF ok
            THEN /\ image' = [image_id |-> NewId, fourcc |-> format]
                 /\ live' = live \cup {NewId}
                 /\ imgbuf' \in FreshBuffers(format)
                 /\ ia_ok' = TRUE
                 /\ view_from' = "vaCreateImage"
                 /\ UNCHANGED ia_failed
            ELSE /\ image' = NoView
                 /\ ia_ok' = FALSE
                 /\ ia_failed' = TRUE
                 /\ UNCHANGED <<live, imgbuf, view_from>>
    /\ pc' = ret
    /\ UNCHANGED <<ctxVars, surface, is_derived, surfmem, mapped>>
    /\ UNCHANGED <<result, ret, format, idx, mpi>>
    /\ UNCHANGED <<op, tried, dst, onlyMismatch, uploaded>>
    /\ UNCHANGED poolVars

va_surface_image_alloc_imgfmt ==
    /\ pc = "idle" /\ surface = "live"
    /\ Begin("va_surface_image_alloc_imgfmt")
    /\ calls' = << >>
    /\ uploaded' = NoImage
    /\ \E imgfmt \in AllocFormats :
         LET f == va_image_format_from_imgfmt(image_formats, imgfmt)
         IN  IF f = 0
             THEN Return("fail")
             ELSE /\ CallImageAlloc(image_formats.entries[f], "alloc_imgfmt_return")
                  /\ UNCHANGED mpi
    /\ UNCHANGED <<ctxVars, surface, viewVars, drvVars, onlyMismatch>>
    /\ UNCHANGED <<histVars, poolVars>>

va_surface_image_alloc_imgfmt_return ==
    /\ pc = "alloc_imgfmt_return"
    /\ Return(IF ia_ok THEN "ok" ELSE "fail")
    /\ UNCHANGED <<ctxVars, surface, viewVars, drvVars, obsVars>>
    /\ UNCHANGED <<histVars, poolVars>>

(* ----------------------------------------------------------------- upload *)

\* The planes a mapping of the stored VAImage shows: the surface's own memory
\* for a derived image, the image's buffer otherwise.
ViewPlanes ==
    IF is_derived THEN Layout(image.fourcc, surfmem) ELSE imgbuf

\* NeedsPutImage with the commit forgotten.
NeedsPutImage_never(derived) == FALSE

\* NeedsPutImage with the commit made whatever the image is.
NeedsPutImage_always(derived) == TRUE

\* va_surface_upload: must vaPutImage() follow the copy?
NeedsPutImage(derived) == ~derived

\* va_surface_upload with the test of the format found (!format) left out.
va_surface_upload_unchecked ==
    /\ pc = "idle" /\ surface = "live"
    /\ Begin("va_surface_upload")
    /\ calls' = << >>
    /\ uploaded' = NoImage
    /\ \E src \in UploadImages :
         /\ mpi' = src
         /\ CallImageAlloc(va_fourcc_from_imgfmt(src.imgfmt), "upload_map")
    /\ UNCHANGED <<ctxVars, surface, viewVars, drvVars, onlyMismatch>>
    /\ UNCHANGED <<histVars, poolVars>>

\* va_surface_upload up to the call of va_surface_image_alloc.
va_surface_upload ==
    /\ pc = "idle" /\ surface = "live"
    /\ Begin("va_surface_upload")
    /\ calls' = << >>
    /\ uploaded' = NoImage
    /\ \E src \in UploadImages :
         LET f == va_image_format_from_imgfmt(image_formats, src.imgfmt)
         IN  IF f = 0
             THEN Return("fail")
             ELSE /\ mpi' = src
                  /\ CallImageAlloc(image_formats.entries[f], "upload_map")
    /\ UNCHANGED <<ctxVars, surface, viewVars, drvVars, onlyMismatch>>
    /\ UNCHANGED <<histVars, poolVars>>

\* va_surface_upload after va_surface_image_alloc: va_image_map.
va_surface_upload_map ==
    /\ pc = "upload_map"
    /\ IF ~ia_ok \/ va_fourcc_to_imgfmt(image.fourcc) = IMGFMT_NONE
       THEN /\ Return("fail")
            /\ UNCHANGED <<mapped, calls>>
       ELSE \E ok \in BOOLEAN :
              /\ calls' = Append(calls, Call("vaMapBuffer", ok))
              /\ IF ok
                 THEN /\ mapped' = TRUE
                      /\ Goto("upload_copy")
                 ELSE /\ Return("fail")
                      /\ UNCHANGED mapped
    /\ UNCHANGED <<ctxVars, surface, viewVars, surfmem, imgbuf, live>>
    /\ UNCHANGED <<op, tried, dst, onlyMismatch, uploaded>>
    /\ UNCHANGED <<histVars, poolVars>>

\* va_surface_upload_copy with the va_image_unmap after the copy left out.
va_surface_upload_copy_no_unmap ==
    /\ pc = "upload_copy"
    /\ LET planes == CopyIn(va_image_map(image.fourcc), mpi.planes)
       IN  IF is_derived
           THEN /\ surfmem' = Unlayout(image.fourcc, planes)
                /\ UNCHANGED imgbuf
           ELSE /\ imgbuf' = planes
                /\ UNCHANGED surfmem
    /\ IF NeedsPutImage(is_derived)
       THEN /\ Goto("upload_put")
            /\ UNCHANGED uploaded
       ELSE /\ Return("ok")
            /\ uploaded' = mpi
    /\ UNCHANGED <<ctxVars, surface, viewVars, live, mapped, calls>>
    /\ UNCHANGED <<op, tried, dst, onlyMismatch>>
    /\ UNCHANGED <<histVars, poolVars>>

\* va_surface_upload: mp_image_copy into the mapping, then va_image_unmap.
va_surface_upload_copy ==
    /\ pc = "upload_copy"
    /\ \E ok \in BOOLEAN : calls' = Append(calls, Call("vaUnmapBuffer", ok))
    /\ mapped' = FALSE
    /\ LET planes == CopyIn(va_image_map(image.fourcc), mpi.planes)
       IN  IF is_derived
           THEN /\ surfmem' = Unlayout(image.fourcc, planes)
                /\ UNCHANGED imgbuf
           ELSE /\ imgbuf' = planes
                /\ UNCHANGED surfmem
    /\ IF NeedsPutImage(is_derived)
       THEN /\ Goto("upload_put")
            /\ UNCHANGED uploaded
       ELSE /\ Return("ok")
            /\ uploaded' = mpi
    /\ UNCHANGED <<ctxVars, surface, viewVars, live>>
    /\ UNCHANGED <<op, tried, dst, onlyMismatch>>
    /\ UNCHANGED <<histVars, poolVars>>

\* va_surface_upload: vaPutImage2 of an image that is not derived.
va_surface_upload_put ==
    /\ pc = "upload_put"
    /\ \E ok \in BOOLEAN :
         /\ calls' = Append(calls, Call("vaPutImage", ok))
         /\ IF ok
            THEN /\ surfmem' = Unlayout(image.fourcc, ViewPlanes)
                 /\ uploaded' = mpi
                 /\ Return("ok")
            ELSE /\ UNCHANGED <<surfmem, uploaded>>
                 /\ Return("fail")
    /\ UNCHANGED <<ctxVars, surface, viewVars, imgbuf, live, mapped>>
    /\ UNCHANGED <<op, tried, dst, onlyMismatch>>
    /\ UNCHANGED <<histVars, poolVars>>

(* --------------------------------------------------------------- download *)

\* One try_download call: which call of the download it was (0: the cached
\* format, i: entry i of the list), its format and whether it returned an image.
Attempt(i, fourcc, ok) == [idx |-> i, fourcc |-> fourcc, ok |-> ok]

\* AttemptFailed with the loop stepping over an entry of the list.
AttemptFailed_skip ==
    /\ tried' = Append(tried, Attempt(idx, format, FALSE))
    /\ IF idx + 2 > Len(image_formats.entries)
       THEN Return("fail")
       ELSE /\ idx' = idx + 2
            /\ format' = image_formats.entries[idx + 2]
            /\ pc' = "try_download"
            /\ UNCHANGED <<result, ret, ia_ok, mpi>>

\* AttemptFailed with the loop ending one entry early (i < num - 1).
AttemptFailed_short ==
    /\ tried' = Append(tried, Attempt(idx, format, FALSE))
    /\ IF idx + 1 > Len(image_formats.entries) - 1
       THEN Return("fail")
       ELSE /\ idx' = idx + 1
            /\ format' = image_formats.entries[idx + 1]
            /\ pc' = "try_download"
            /\ UNCHANGED <<result, ret, ia_ok, mpi>>

\* try_download returned NULL: va_surface_download goes on to the next entry
\* of the list, or gives up after the last.
AttemptFailed ==
    /\ tried' = Append(tried, Attempt(idx, format, FALSE))
    /\ IF idx + 1 > Len(image_formats.entries)
       THEN Return("fail")
       ELSE /\ idx' = idx + 1
            /\ format' = image_formats.entries[idx + 1]
            /\ pc' = "try_download"
            /\ UNCHANGED <<result, ret, ia_ok, mpi>>

\* va_surface_download with the status of vaSyncSurface() not checked.
va_surface_download_unsynced ==
    /\ pc = "idle" /\ surface = "live"
    /\ Begin("va_surface_download")
    /\ \E ok \in BOOLEAN :
         /\ calls' = <<Call("vaSyncSurface", ok)>>
         /\ IF image.image_id # VA_INVALID_ID
            THEN /\ idx' = 0
                 /\ format' = image.fourcc
                 /\ pc' = "try_download"
                 /\ UNCHANGED <<result, ret, ia_ok, mpi>>
            ELSE IF Len(image_formats.entries) = 0
            THEN Return("fail")
            ELSE /\ idx' = 1
                 /\ format' = image_formats.entries[1]
                 /\ pc' = "try_download"
                 /\ UNCHANGED <<result, ret, ia_ok, mpi>>
    /\ uploaded' = (IF op = "va_surface_upload" THEN uploaded ELSE NoImage)
    /\ UNCHANGED <<ctxVars, surface, viewVars, drvVars, onlyMismatch>>
    /\ UNCHANGED <<histVars, poolVars>>

\* va_surface_download: vaSyncSurface, then the cached format or the list.
va_surface_download ==
    /\ pc = "idle" /\ surface = "live"
    /\ Begin("va_surface_download")
    /\ \E ok \in BOOLEAN :
         /\ calls' = <<Call("vaSyncSurface", ok)>>
         /\ IF ~ok
            THEN Return("fail")
            ELSE IF image.image_id # VA_INVALID_ID
            THEN /\ idx' = 0
                 /\ format' = image.fourcc
                 /\ pc' = "try_download"
                 /\ UNCHANGED <<result, ret, ia_ok, mpi>>
            ELSE IF Len(image_formats.entries) = 0
            THEN Return("fail")
            ELSE /\ idx' = 1
                 /\ format' = image_formats.entries[1]
                 /\ pc' = "try_download"
                 /\ UNCHANGED <<result, ret, ia_ok, mpi>>
    /\ uploaded' = (IF op = "va_surface_upload" THEN uploaded ELSE NoImage)
    /\ UNCHANGED <<ctxVars, surface, viewVars, drvVars, onlyMismatch>>
    /\ UNCHANGED <<histVars, poolVars>>

\* try_download with the test of the generic format (imgfmt == IMGFMT_NONE)
\* left out.
try_download_unfiltered ==
    /\ pc = "try_download"
    /\ CallImageAlloc(format, "download_get")
    /\ UNCHANGED <<tried, mpi>>
    /\ calls' = << >>
    /\ UNCHANGED <<ctxVars, surface, viewVars, drvVars>>
    /\ UNCHANGED <<op, dst, onlyMismatch, uploaded>>
    /\ UNCHANGED <<histVars, poolVars>>

\* try_download up to the call of va_surface_image_alloc.
try_download ==
    /\ pc = "try_download"
    /\ IF va_fourcc_to_imgfmt(format) = IMGFMT_NONE
       THEN AttemptFailed
       ELSE /\ CallImageAlloc(format, "download_get")
            /\ UNCHANGED <<tried, mpi>>
    /\ calls' = << >>
    /\ UNCHANGED <<ctxVars, surface, viewVars, drvVars>>
    /\ UNCHANGED <<op, dst, onlyMismatch, uploaded>>
    /\ UNCHANGED <<histVars, poolVars>>

\* try_download after va_surface_image_alloc: vaGetImage unless derived.
try_download_get ==
    /\ pc = "download_get"
    /\ IF ~ia_ok
       THEN /\ AttemptFailed
            /\ UNCHANGED <<imgbuf, calls>>
       ELSE IF is_derived
       THEN /\ Goto("download_map")
            /\ UNCHANGED <<imgbuf, calls, tried>>
       ELSE \E ok \in BOOLEAN :
              /\ calls' = Append(calls, Call("vaGetImage", ok))
              /\ IF ok
                 THEN /\ imgbuf' = Layout(image.fourcc, surfmem)
                      /\ Goto("download_map")
                      /\ UNCHANGED tried
                 ELSE /\ AttemptFailed
                      /\ UNCHANGED imgbuf
    /\ UNCHANGED <<ctxVars, surface, viewVars, surfmem, live, mapped>>
    /\ UNCHANGED <<op, dst, onlyMismatch, uploaded>>
    /\ UNCHANGED <<histVars, poolVars>>

\* try_download: va_image_map of the stored VAImage.
try_download_map ==
    /\ pc = "download_map"
    /\ IF va_fourcc_to_imgfmt(image.fourcc) = IMGFMT_NONE
       THEN /\ AttemptFailed
            /\ UNCHANGED <<mapped, calls>>
       ELSE \E ok \in BOOLEAN :
              /\ calls' = Append(calls, Call("vaMapBuffer", ok))
              /\ IF ok
                 THEN /\ mapped' = TRUE
                      /\ Goto("download_copy")
                      /\ UNCHANGED tried
                 ELSE /\ AttemptFailed
                      /\ UNCHANGED mapped
    /\ UNCHANGED <<ctxVars, surface, viewVars, surfmem, imgbuf, live>>
    /\ UNCHANGED <<op, dst, onlyMismatch, uploaded>>
    /\ UNCHANGED <<histVars, poolVars>>

\* try_download: mp_image_copy out of the mapping, va_image_unmap, and the
\* return of the copy through va_surface_download.
try_download_copy ==
    /\ pc = "download_copy"
    /\ \E ok \in BOOLEAN : calls' = Append(calls, Call("vaUnmapBuffer", ok))
    /\ mapped' = FALSE
    /\ dst' = [imgfmt |-> va_fourcc_to_imgfmt(image.fourcc),
               planes |-> CopyOut(va_image_map(image.fourcc), ViewPlanes)]
    /\ tried' = Append(tried, Attempt(idx, format, TRUE))
    /\ Return("ok")
    /\ UNCHANGED <<ctxVars, surface, viewVars, surfmem, imgbuf, live>>
    /\ UNCHANGED <<op, onlyMismatch, uploaded>>
    /\ UNCHANGED <<histVars, poolVars>>

(* ---------------------------------------------------------- specification *)

Next ==
    \/ va_initialize
    \/ va_destroy
    \/ alloc_surface
    \/ va_surface_destroy
    \/ va_surface_image_alloc
    \/ va_surface_image_alloc_derive
    \/ va_surface_image_alloc_create
    \/ va_surface_image_alloc_imgfmt
    \/ va_surface_image_alloc_imgfmt_return
    \/ va_surface_upload
    \/ va_surface_upload_map
    \/ va_surface_upload_copy
    \/ va_surface_upload_put
    \/ va_surface_download
    \/ try_download
    \/ try_download_get
    \/ try_download_map
    \/ try_download_copy

Spec == Init /\ [][Next]_vars

(* ------------------------------------------- va_image_map, called directly *)

\* The fourccs of the VAImages callers pass to va_image_map: those of the
\* table and one it does not list.
MapFourccs ==
    {va_to_imgfmt[i].va : i \in 1..(TableEnd - 1)} \cup {VA_FOURCC_ARGB}

\* What the buffers of those VAImages hold.
MapPictures == {Blank, <<1, 2, 3>>, <<3, 1, 2>>}

\* A context, and a VAImage of some fourcc that a caller owns.
MapInit ==
    /\ ctx = "live"
    /\ image_formats = va_get_formats(TRUE, << >>)
    /\ discoveries = 1
    /\ surface = "NULL"
    /\ \E f \in MapFourccs, pic \in MapPictures :
         /\ image = [image_id |-> 1, fourcc |-> f]
         /\ imgbuf = Layout(f, pic)
    /\ is_derived = FALSE
    /\ surfmem = Blank
    /\ live = {1}
    /\ mapped = FALSE
    /\ pc = "idle"
    /\ ret = "idle"
    /\ format = NoFourcc
    /\ idx = 0
    /\ mpi = NoImage
    /\ ia_ok = FALSE
    /\ op = "none"
    /\ calls = << >>
    /\ tried = << >>
    /\ result = "none"
    /\ dst = NoImage
    /\ onlyMismatch = TRUE
    /\ uploaded = NoImage
    /\ view_from = "vaCreateImage"
    /\ ia_failed = FALSE
    /\ pool = << >>
    /\ pool_req = {}
    /\ pool_peak = 0

\* va_image_map(ctx, &image, &mpi): dst is *mpi as read through its plane
\* pointers.
va_image_map_call ==
    /\ pc = "idle" /\ ~mapped
    /\ op' = "va_image_map"
    /\ IF va_fourcc_to_imgfmt(image.fourcc) = IMGFMT_NONE
       THEN /\ calls' = << >>
            /\ Return("fail")
            /\ UNCHANGED <<mapped, dst>>
       ELSE \E ok \in BOOLEAN :
              /\ calls' = <<Call("vaMapBuffer", ok)>>
              /\ IF ok
                 THEN /\ mapped' = TRUE
                      /\ dst' = [imgfmt |-> va_fourcc_to_imgfmt(image.fourcc),
                                 planes |-> CopyOut(va_image_map(image.fourcc),
                                                    imgbuf)]
                      /\ Return("ok")
                 ELSE /\ Return("fail")
                      /\ UNCHANGED <<mapped, dst>>
    /\ UNCHANGED <<ctxVars, surface, viewVars, surfmem, imgbuf, live>>
    /\ UNCHANGED <<tried, onlyMismatch, uploaded, histVars, poolVars>>

\* va_image_unmap(ctx, &image): the pointers of the mapping are gone.
va_image_unmap_call ==
    /\ pc = "idle" /\ mapped
    /\ op' = "va_image_unmap"
    /\ \E ok \in BOOLEAN :
         /\ calls' = <<Call("vaUnmapBuffer", ok)>>
         /\ Return(IF ok THEN "ok" ELSE "fail")
    /\ mapped' = FALSE
    /\ dst' = NoImage
    /\ UNCHANGED <<ctxVars, surface, viewVars, surfmem, imgbuf, live>>
    /\ UNCHANGED <<tried, onlyMismatch, uploaded, histVars, poolVars>>

MapNext ==
    \/ va_image_map_call
    \/ va_image_unmap_call

MapSpec == MapInit /\ [][MapNext]_vars

(* ------------------------------------------------------ the surface pool *)

\* The <<w, h>> and the formats asked of the pool.
PoolSizes == {<<1, 2>>, <<2, 1>>}
PoolFormats == {IMGFMT_VAAPI, IMGFMT_420P}

\* NULL, as an mp_image.
NoPoolImage == [imgfmt |-> IMGFMT_NONE, w |-> 0, h |-> 0]

\* SurfaceImage with width and height exchanged.
SurfaceImage_swapped(w, h) == [imgfmt |-> IMGFMT_VAAPI, w |-> h, h |-> w]

\* alloc_surface: the mp_image that wraps the new surface.
SurfaceImage(w, h) == [imgfmt |-> IMGFMT_VAAPI, w |-> w, h |-> h]

\* alloc_pool, the allocator va_pool_set_allocator sets: the image returned,
\* given the status of vaCreateSurfaces().
alloc_pool(fmt, w, h, ok) ==
    IF fmt # IMGFMT_VAAPI THEN NoPoolImage
    ELSE IF ~ok THEN NoPoolImage
    ELSE SurfaceImage(w, h)

\* The driver calls of alloc_pool.
alloc_pool_calls(fmt, ok) ==
    IF fmt # IMGFMT_VAAPI THEN << >> ELSE <<Call("vaCreateSurfaces", ok)>>

\* The images of the pool that callers hold.
Referenced(p) == {i \in 1..Len(p) : p[i].referenced}

\* A context, and an empty pool on which va_pool_set_allocator was called.
PoolInit ==
    /\ ctx = "live"
    /\ image_formats = va_get_formats(TRUE, << >>)
    /\ discoveries = 1
    /\ surface = "NULL"
    /\ image = NoView
    /\ is_derived = FALSE
    /\ surfmem = Blank
    /\ imgbuf = << >>
    /\ live = {}
    /\ mapped = FALSE
    /\ pc = "idle"
    /\ ret = "idle"
    /\ format = NoFourcc
    /\ idx = 0
    /\ mpi = NoImage
    /\ ia_ok = FALSE
    /\ op = "va_pool_set_allocator"
    /\ calls = << >>
    /\ tried = << >>
    /\ result = "ok"
    /\ dst = NoImage
    /\ onlyMismatch = TRUE
    /\ uploaded = NoImage
    /\ view_from = "none"
    /\ ia_failed = FALSE
    /\ pool = << >>
    /\ pool_req = {}
    /\ pool_peak = 0

\* mp_image_pool_get(pool, fmt, w, h) in LRU mode: the least recently used
\* image of the pool that no caller holds and that has the format and size
\* asked for; if there is none, an image from the allocator, added to the pool.
mp_image_pool_get ==
    /\ pc = "idle" /\ ctx = "live"
    /\ Cardinality(Referenced(pool)) < MaxSurfaces
    /\ op' = "mp_image_pool_get"
    /\ \E fmt \in PoolFormats, size \in PoolSizes :
         LET want == [imgfmt |-> fmt, w |-> size[1], h |-> size[2]]
             free == {i \in 1..Len(pool) :
                        ~pool[i].referenced /\ pool[i].img = want}
         IN  /\ pool_req' = pool_req \cup {<<fmt, size[1], size[2]>>}
             /\ IF free # {}
                THEN /\ pool' = [pool EXCEPT ![FirstIndex(free)].referenced = TRUE]
                     /\ calls' = << >>
                     /\ Return("ok")
                ELSE \E ok \in BOOLEAN :
                       LET new == alloc_pool(fmt, size[1], size[2], ok)
                       IN  /\ calls' = alloc_pool_calls(fmt, ok)
                           /\ IF new = NoPoolImage
                              THEN /\ pool' = pool
                                   /\ Return("fail")
                              ELSE /\ pool' = Append(pool, [img |-> new,
                                                            referenced |-> TRUE])
                                   /\ Return("ok")
    /\ pool_peak' = (IF Cardinality(Referenced(pool')) > pool_peak
                     THEN Cardinality(Referenced(pool')) ELSE pool_peak)
    /\ UNCHANGED <<ctxVars, surface, viewVars, drvVars>>
    /\ UNCHANGED <<tried, dst, onlyMismatch, uploaded, histVars>>

\* The caller drops its reference to an image of the pool: the image goes
\* back to the pool as the most recently used.
mp_image_unref ==
    /\ pc = "idle"
    /\ op' = "mp_image_unref"
    /\ \E i \in Referenced(pool) :
         pool' = Append(SubSeq(pool, 1, i - 1) \o SubSeq(pool, i + 1, Len(pool)),
                        [pool[i] EXCEPT !.referenced = FALSE])
    /\ calls' = << >>
    /\ Return("ok")
    /\ UNCHANGED <<ctxVars, surface, viewVars, drvVars>>
    /\ UNCHANGED <<tried, dst, onlyMismatch, uploaded, histVars>>
    /\ UNCHANGED <<pool_req, pool_peak>>

PoolNext ==
    \/ mp_image_pool_get
    \/ mp_image_unref

PoolSpec == PoolInit /\ [][PoolNext]_vars

(* ------------------------------------------------------------------ claims *)

\* The fourccs va_to_imgfmt lists for a generic format, and the one listed first.
NativesOf(imgfmt) ==
    {va_to_imgfmt[i].va : i \in {j \in 1..(Len(va_to_imgfmt) - 1) :
                                    va_to_imgfmt[j].mp = imgfmt}}

FirstNativeOf(imgfmt) ==
    va_to_imgfmt[CHOOSE i \in 1..(Len(va_to_imgfmt) - 1) :
                    /\ va_to_imgfmt[i].mp = imgfmt
                    /\ \A j \in 1..(i - 1) : va_to_imgfmt[j].mp # imgfmt].va

Advertised == {image_formats.entries[i] : i \in 1..Len(image_formats.entries)}

\* C1 as stated: for every list of formats and every generic format P,
\* va_image_format_from_imgfmt returns an entry exactly when some fourcc that
\* the table maps to P is in the list, a fourcc listed after P's first included.
C1_AnyAliasFound ==
    \A P \in ImgFmts :
        (va_image_format_from_imgfmt(image_formats, P) # 0)
            <=> (NativesOf(P) \cap Advertised # {})

\* C1 amended: va_image_format_from_imgfmt returns an entry exactly when the
\* fourcc the table lists FIRST for P is in the list, and then the first entry
\* of that fourcc; a list holding only a later alias of P (I420 or IYUV for
\* 420P), an unlisted P, and a NULL or empty list all give NULL.
C1_FirstAliasFound ==
    \A P \in ImgFmts :
        LET f == va_image_format_from_imgfmt(image_formats, P)
        IN  IF NativesOf(P) # {} /\ FirstNativeOf(P) \in Advertised
            THEN /\ f \in 1..Len(image_formats.entries)
                 /\ image_formats.entries[f] = FirstNativeOf(P)
                 /\ \A j \in 1..(f - 1) : image_formats.entries[j] # FirstNativeOf(P)
            ELSE f = 0

\* An upload was refused for want of a format although the driver lists I420:
\* the list holds a later alias of 420P and not YV12, its first.
C1_Witness ==
    /\ ctx = "live"
    /\ image_formats.entries = <<VA_FOURCC_NV12, VA_FOURCC_I420>>
    /\ va_image_format_from_imgfmt(image_formats, IMGFMT_420P) = 0
    /\ va_image_format_from_imgfmt(image_formats, IMGFMT_NV12) = 1
    /\ op = "va_surface_upload" /\ pc = "idle" /\ result = "fail" /\ calls = << >>

\* The positions of calls to the named driver function.
CallsTo(name) == {i \in 1..Len(calls) : calls[i].c = name}

\* C2: an upload of image I succeeded and the download right after it succeeded
\* on its first try_download, the one with the cached format (the driver
\* failed no call of the transfer): the image returned is I, format and planes.
C2_RoundTrip ==
    ( /\ pc = "idle" /\ op = "va_surface_download" /\ result = "ok"
      /\ uploaded # NoImage
      /\ Len(tried) = 1 /\ tried[1].idx = 0 )
    => dst = uploaded

\* A 420P image came back from a YV12 image that is not derived.
C2_Witness ==
    /\ pc = "idle" /\ op = "va_surface_download" /\ result = "ok"
    /\ uploaded = SwImage(IMGFMT_420P, <<1, 2, 3>>)
    /\ image.fourcc = VA_FOURCC_YV12 /\ ~is_derived
    /\ imgbuf = << <<1>>, <<3>>, <<2>> >>
    /\ dst = uploaded

\* C3: a call of va_surface_image_alloc that finds a stored VAImage of the
\* format asked for makes no driver call and returns that image, with the
\* derived flag as it was.
C3_CacheHit ==
    [][ ( /\ pc = "image_alloc"
          /\ image.image_id # VA_INVALID_ID
          /\ image.fourcc = format )
        => ( /\ calls' = calls
             /\ image' = image
             /\ is_derived' = is_derived
             /\ live' = live
             /\ imgbuf' = imgbuf
             /\ ia_ok'
             /\ pc' = ret ) ]_vars

\* va_surface_image_alloc_imgfmt returned 0 without one driver call, on a
\* derived image.
C3_Witness ==
    /\ pc = "idle" /\ op = "va_surface_image_alloc_imgfmt" /\ result = "ok"
    /\ calls = << >>
    /\ image.image_id # VA_INVALID_ID /\ is_derived

\* Where va_surface_image_alloc returns to.
AfterImageAlloc == {"upload_map", "download_get", "alloc_imgfmt_return"}

\* C4: while every vaDeriveImage on the surface succeeded with another format
\* or size than asked for, va_surface_image_alloc returns NULL only after a
\* failed vaCreateImage, the stored image is never marked derived, and an
\* upload that copied ends with vaPutImage right after the unmap.
C4_DeriveFallback ==
    onlyMismatch =>
        /\ ~is_derived
        /\ (pc \in AfterImageAlloc /\ ~ia_ok)
              => ( /\ Len(calls) > 0
                   /\ calls[Len(calls)] = Call("vaCreateImage", FALSE) )
        /\ (pc = "idle" /\ op = "va_surface_upload"
                /\ CallsTo("vaUnmapBuffer") # {})
              => ( /\ Len(calls) >= 2
                   /\ calls[Len(calls) - 1].c = "vaUnmapBuffer"
                   /\ calls[Len(calls)].c = "vaPutImage"
                   /\ CallsTo("vaPutImage") = {Len(calls)} )

\* An upload went through a mismatching derive, vaCreateImage and vaPutImage.
C4_Witness ==
    /\ onlyMismatch /\ pc = "idle" /\ op = "va_surface_upload" /\ result = "ok"
    /\ calls = <<Call("vaDeriveImage", TRUE), Call("vaDestroyImage", TRUE),
                 Call("vaCreateImage", TRUE), Call("vaMapBuffer", TRUE),
                 Call("vaUnmapBuffer", TRUE), Call("vaPutImage", TRUE)>>
    /\ image.image_id # VA_INVALID_ID /\ ~is_derived

\* C5: in va_surface_upload, vaPutImage is called exactly when the image
\* copied into is not derived: never for a derived image, once and right after
\* the unmap otherwise; and the upload fails when vaPutImage fails.
C5_CommitIffNotDerived ==
    op = "va_surface_upload" =>
        /\ is_derived => CallsTo("vaPutImage") = {}
        /\ CallsTo("vaPutImage") # {} =>
              /\ CallsTo("vaPutImage") = {Len(calls)}
              /\ calls[Len(calls) - 1].c = "vaUnmapBuffer"
              /\ pc = "idle"
              /\ result = (IF calls[Len(calls)].ok THEN "ok" ELSE "fail")
        /\ (pc = "idle" /\ ~is_derived /\ CallsTo("vaUnmapBuffer") # {})
              => CallsTo("vaPutImage") # {}
        /\ (pc = "idle" /\ is_derived /\ CallsTo("vaUnmapBuffer") # {})
              => result = "ok"

\* An upload into an image that is not derived failed on vaPutImage.
C5_Witness ==
    /\ pc = "idle" /\ op = "va_surface_upload" /\ result = "fail"
    /\ ~is_derived /\ image.image_id # VA_INVALID_ID
    /\ Len(calls) >= 2
    /\ calls[Len(calls)] = Call("vaPutImage", FALSE)
    /\ calls[Len(calls) - 1].c = "vaUnmapBuffer"

\* 1 if the download began with the cached format, else 0: the try_download
\* calls after that many are the loop's.
FastPath == IF Len(tried) > 0 /\ tried[1].idx = 0 THEN 1 ELSE 0

\* C6: the try_download calls of the loop of va_surface_download take the
\* entries of the list in order from the first, none but the last call returns
\* an image, and the download returns the image of that call at once.
C6_SearchOrder ==
    op = "va_surface_download" =>
        /\ \A k \in (FastPath + 1)..Len(tried) :
              /\ tried[k].idx = k - FastPath
              /\ tried[k].idx <= Len(image_formats.entries)
              /\ tried[k].fourcc = image_formats.entries[tried[k].idx]
        /\ \A k \in 1..(Len(tried) - 1) : ~tried[k].ok
        /\ (Len(tried) > 0 /\ tried[Len(tried)].ok)
              => ( /\ pc = "idle" /\ result = "ok"
                   /\ image.fourcc = tried[Len(tried)].fourcc
                   /\ dst.imgfmt = va_fourcc_to_imgfmt(tried[Len(tried)].fourcc)
                   /\ dst.planes = CopyOut(va_image_map(image.fourcc), ViewPlanes) )
        /\ (pc = "idle" /\ result = "ok")
              => (Len(tried) > 0 /\ tried[Len(tried)].ok)

\* No cached format, a list of three of which only the third succeeds: the
\* calls are the first, the second, the third.
C6_Witness ==
    /\ pc = "idle" /\ op = "va_surface_download" /\ result = "ok"
    /\ Len(image_formats.entries) = 3
    /\ tried = <<Attempt(1, image_formats.entries[1], FALSE),
                 Attempt(2, image_formats.entries[2], FALSE),
                 Attempt(3, image_formats.entries[3], TRUE)>>

\* C7: once vaSyncSurface succeeded, va_surface_download returns NULL only when
\* every try_download call failed, the one on the cached format (made exactly
\* when a VAImage is stored) and one on every entry of the list; if a call
\* succeeds the download returns an image.
C7_FailsOnlyAfterAll ==
    op = "va_surface_download" =>
        /\ (pc = "idle" /\ result = "fail"
                /\ calls # <<Call("vaSyncSurface", FALSE)>>)
              => ( /\ \A k \in 1..Len(tried) : ~tried[k].ok
                   /\ \A i \in 1..Len(image_formats.entries) :
                         \E k \in 1..Len(tried) : tried[k].idx = i )
        /\ (\E k \in 1..Len(tried) : tried[k].ok)
              => (pc = "idle" /\ result = "ok")
        /\ (pc = "try_download" /\ tried = << >>)
              => ( /\ (idx = 0) <=> (image.image_id # VA_INVALID_ID)
                   /\ (idx = 0) => (format = image.fourcc) )

\* A download failed after the cached format and both entries of the list.
C7_Witness ==
    /\ pc = "idle" /\ op = "va_surface_download" /\ result = "fail"
    /\ Len(image_formats.entries) = 2
    /\ Len(tried) = 3
    /\ tried[1].idx = 0 /\ tried[2].idx = 1 /\ tried[3].idx = 2
    /\ \A k \in 1..3 : ~tried[k].ok

\* C8: destroying a surface that stores a VAImage calls vaDestroyImage, then
\* vaDestroySurfaces, each once, whatever vaDestroyImage returns; destroying a
\* surface that stores none calls vaDestroySurfaces alone.
C8_DestroyOrder ==
    [][ (surface = "live" /\ surface' = "NULL")
        => IF image.image_id # VA_INVALID_ID
           THEN /\ Len(calls') = 2
                /\ calls'[1].c = "vaDestroyImage"
                /\ calls'[2].c = "vaDestroySurfaces"
           ELSE /\ Len(calls') = 1
                /\ calls'[1].c = "vaDestroySurfaces" ]_vars

\* vaDestroyImage failed and vaDestroySurfaces was called after it.
C8_Witness ==
    /\ pc = "idle" /\ op = "va_surface_destroy" /\ surface = "NULL"
    /\ calls = <<Call("vaDestroyImage", FALSE), Call("vaDestroySurfaces", TRUE)>>

\* C9 as stated: va_initialize never returns a context whose list of formats
\* is empty, and the list was filled by one discovery.
C9_EmptyIsFatal ==
    ctx = "live" =>
        /\ ~image_formats.isnull
        /\ Len(image_formats.entries) > 0
        /\ discoveries = 1

\* C9 amended: va_initialize returns a context exactly when vaInitialize and
\* vaQueryImageFormats both succeed, whatever the number of formats reported
\* (a list of zero formats included); the context's list is then the one
\* reported, filled by one discovery.
C9_FailedQueryIsFatal ==
    /\ ctx = "live" => (~image_formats.isnull /\ discoveries = 1)
    /\ ctx = "NULL" => (image_formats.isnull /\ discoveries = 0)
    /\ (pc = "idle" /\ op = "va_initialize") =>
          /\ (result = "ok") <=> (ctx = "live")
          /\ (result = "ok") <=> ( /\ Len(calls) = 2
                                   /\ calls[1] = Call("vaInitialize", TRUE)
                                   /\ calls[2] = Call("vaQueryImageFormats", TRUE) )
          /\ (result = "fail") => \E i \in 1..Len(calls) : ~calls[i].ok

\* va_initialize returned a context whose list of formats is empty.
C9_Witness ==
    /\ pc = "idle" /\ op = "va_initialize" /\ result = "ok" /\ ctx = "live"
    /\ ~image_formats.isnull /\ image_formats.entries = << >>
    /\ calls = <<Call("vaInitialize", TRUE), Call("vaQueryImageFormats", TRUE)>>

\* C10 as the comment on va_surface_download has it: va_surface_upload makes
\* none of the driver calls that create or destroy the stored VAImage.
C10_UploadKeepsImage ==
    op = "va_surface_upload" =>
        /\ CallsTo("vaDeriveImage") = {}
        /\ CallsTo("vaCreateImage") = {}
        /\ CallsTo("vaDestroyImage") = {}

\* C11 as stated: within one call of va_surface_download no fourcc is given to
\* try_download more than once, the format of the stored VAImage included when
\* the call on it failed and the loop over the list runs.
C11_NoFormatTwice ==
    op = "va_surface_download" =>
        \A j, k \in 1..Len(tried) :
            j # k => tried[j].fourcc # tried[k].fourcc

\* C12: in va_surface_upload and va_surface_download every vaMapBuffer that
\* succeeded is followed at once, before the operation returns, by one
\* vaUnmapBuffer (whatever the operation then returns); no mapping is left when
\* the operation returns; vaUnmapBuffer is called only right after a
\* vaMapBuffer that succeeded; and vaMapBuffer is never called while a mapping
\* is open. A mapping is open from a successful vaMapBuffer to the call of
\* vaUnmapBuffer.
C12_ScopedMapping ==
    /\ \A i \in 1..Len(calls) :
          /\ calls[i].c = "vaUnmapBuffer"
                => (i > 1 /\ calls[i - 1] = Call("vaMapBuffer", TRUE))
          /\ calls[i] = Call("vaMapBuffer", TRUE)
                => IF i < Len(calls)
                   THEN calls[i + 1].c = "vaUnmapBuffer"
                   ELSE mapped /\ pc \in {"upload_copy", "download_copy"}
    /\ mapped <=> ( /\ Len(calls) > 0
                    /\ calls[Len(calls)] = Call("vaMapBuffer", TRUE) )
    /\ pc \in {"idle", "try_download", "image_alloc", "image_derive",
               "image_create", "upload_map", "download_get", "download_map",
               "upload_put"} => ~mapped
    /\ Cardinality(CallsTo("vaMapBuffer")) <= 1

\* A download mapped the image, copied, and returned its image although
\* vaUnmapBuffer reported a failure: the unmap was called, no mapping is left.
C12_Witness ==
    /\ pc = "idle" /\ op = "va_surface_download" /\ result = "ok"
    /\ Len(calls) >= 2
    /\ calls[Len(calls) - 1] = Call("vaMapBuffer", TRUE)
    /\ calls[Len(calls)] = Call("vaUnmapBuffer", FALSE)
    /\ ~mapped

\* C13: a call of va_surface_upload goes on to va_surface_image_alloc only with
\* a source image whose format has an entry in the list; with any other source
\* image it returns false at once, having made no driver call and with the
\* stored VAImage (id, format), the derived flag and the driver's images and
\* memory as they were.
C13_UnsupportedUpload ==
    [][ (pc = "idle" /\ op' = "va_surface_upload")
        => /\ calls' = << >>
           /\ UNCHANGED <<viewVars, drvVars>>
           /\ \/ /\ pc' = "image_alloc"
                 /\ va_image_format_from_imgfmt(image_formats, mpi'.imgfmt) # 0
                 /\ format' = va_fourcc_from_imgfmt(mpi'.imgfmt)
              \/ /\ pc' = "idle"
                 /\ result' = "fail" ]_vars

\* An upload of an image of a format with no entry returned false with no
\* driver call; the derived VAImage the surface stored is still there.
C13_Witness ==
    /\ pc = "idle" /\ op = "va_surface_upload" /\ result = "fail"
    /\ calls = << >>
    /\ image.image_id # VA_INVALID_ID /\ is_derived /\ live = {image.image_id}

\* C16: the first driver call of va_surface_download is vaSyncSurface, alone in
\* the download's first step; when it fails the download returns NULL at once,
\* with no try_download call, and the stored VAImage, the derived flag and the
\* driver's images and memory as they were; no try_download is called in a
\* download whose vaSyncSurface failed.
C16_SyncFirst ==
    [][ (pc = "idle" /\ op' = "va_surface_download")
        => /\ Len(calls') = 1
           /\ calls'[1].c = "vaSyncSurface"
           /\ tried' = << >>
           /\ UNCHANGED <<viewVars, drvVars>>
           /\ IF calls'[1].ok
              THEN \/ pc' = "try_download"
                   \/ /\ pc' = "idle" /\ result' = "fail"
                      /\ image.image_id = VA_INVALID_ID
                      /\ Len(image_formats.entries) = 0
              ELSE pc' = "idle" /\ result' = "fail" /\ dst' = NoImage ]_vars

\* A download returned NULL on a failed vaSyncSurface; the surface still stores
\* the VAImage it had.
C16_Witness ==
    /\ pc = "idle" /\ op = "va_surface_download" /\ result = "fail"
    /\ calls = <<Call("vaSyncSurface", FALSE)>>
    /\ tried = << >>
    /\ image.image_id # VA_INVALID_ID /\ live = {image.image_id}

\* C18: a try_download call with a fourcc that va_to_imgfmt does not list
\* returns NULL having made no driver call: the stored VAImage, the derived
\* flag and the driver's images and memory are as they were, and the download
\* goes on to the next entry of the list or ends.
C18_UnlistedSkipped ==
    [][ (pc = "try_download" /\ va_fourcc_to_imgfmt(format) = IMGFMT_NONE)
        => /\ calls' = << >>
           /\ UNCHANGED <<viewVars, drvVars>>
           /\ tried' = Append(tried, Attempt(idx, format, FALSE))
           /\ IF idx < Len(image_formats.entries)
              THEN /\ pc' = "try_download"
                   /\ idx' = idx + 1
                   /\ format' = image_formats.entries[idx + 1]
              ELSE pc' = "idle" /\ result' = "fail" ]_vars

\* A download whose first format failed stepped over the unlisted fourcc and
\* took the next entry from the VAImage it still stored: no derive, no create.
C18_Witness ==
    /\ pc = "idle" /\ op = "va_surface_download" /\ result = "ok"
    /\ tried = <<Attempt(0, VA_FOURCC_NV12, FALSE),
                 Attempt(1, VA_FOURCC_ARGB, FALSE),
                 Attempt(2, VA_FOURCC_NV12, TRUE)>>
    /\ CallsTo("vaDeriveImage") = {} /\ CallsTo("vaCreateImage") = {}
    /\ CallsTo("vaDestroyImage") = {}
    /\ image.fourcc = VA_FOURCC_NV12

\* C15: between operations the derived flag is set exactly when the surface
\* stores a VAImage that a vaDeriveImage of the format and size asked for made;
\* it is clear when no VAImage is stored (image_id is VA_INVALID_ID) and when
\* vaCreateImage made the stored one.
C15_DerivedFlag ==
    pc = "idle" =>
        /\ is_derived <=> (view_from = "vaDeriveImage")
        /\ (view_from = "none") <=> (image.image_id = VA_INVALID_ID)
        /\ is_derived => (image.image_id # VA_INVALID_ID /\ image.image_id \in live)
        /\ view_from = "vaCreateImage" => ~is_derived
        /\ surface = "NULL" => (~is_derived /\ view_from = "none")

\* A surface whose VAImage was derived got one of another format from
\* vaCreateImage: the flag was cleared with the derived image.
C15_Witness ==
    /\ pc = "idle" /\ op = "va_surface_image_alloc_imgfmt" /\ result = "ok"
    /\ calls = <<Call("vaDestroyImage", TRUE), Call("vaDeriveImage", FALSE),
                 Call("vaCreateImage", TRUE)>>
    /\ view_from = "vaCreateImage" /\ ~is_derived
    /\ image.image_id # VA_INVALID_ID

\* The driver calls a step makes: an entry point and try_download begin a new
\* log, every other step adds to it.
Issued ==
    IF pc \in {"idle", "try_download"}
    THEN calls'
    ELSE SubSeq(calls', Len(calls) + 1, Len(calls'))

\* How many of the calls a step makes create a VAImage, and how many destroy one.
ImagesMade ==
    Cardinality({i \in 1..Len(Issued) :
                    Issued[i] \in {Call("vaDeriveImage", TRUE),
                                   Call("vaCreateImage", TRUE)}})

ImagesDestroyed ==
    Cardinality({i \in 1..Len(Issued) : Issued[i].c = "vaDestroyImage"})

\* C19: every vaDestroyImage call takes one live VAImage away and every
\* successful vaDeriveImage or vaCreateImage adds one (no image is destroyed
\* twice, no call destroys a handle that is not live); at most one VAImage of
\* the surface is live; between operations the live image is the stored one;
\* and none is live once the surface is destroyed.
C19_ImageAccounting ==
    [][ /\ Cardinality(live') = Cardinality(live) + ImagesMade - ImagesDestroyed
        /\ Cardinality(live') <= 1
        /\ pc' = "idle" =>
              live' = (IF image'.image_id = VA_INVALID_ID
                       THEN {} ELSE {image'.image_id})
        /\ surface' = "NULL" => live' = {} ]_vars

\* The stored image was destroyed for another format, vaDeriveImage then made
\* an image of the wrong format, which was destroyed too: none is live and
\* vaCreateImage comes next.
C19_Witness ==
    /\ pc = "image_create" /\ surface = "live"
    /\ calls = <<Call("vaDestroyImage", TRUE), Call("vaDeriveImage", TRUE),
                 Call("vaDestroyImage", TRUE)>>
    /\ live = {}

\* C20: va_surface_image_alloc returns NULL only from a failed vaCreateImage
\* that followed a failed vaDeriveImage or a derived image of the wrong format
\* or size (destroyed); the surface then stores no VAImage (image_id is
\* VA_INVALID_ID, is_derived false) and none is live, the image stored before
\* the call included.
C20_AllocFailure ==
    (pc \in AfterImageAlloc /\ ~ia_ok) =>
        /\ Len(calls) >= 2
        /\ calls[Len(calls)] = Call("vaCreateImage", FALSE)
        /\ \/ calls[Len(calls) - 1] = Call("vaDeriveImage", FALSE)
           \/ /\ Len(calls) >= 3
              /\ calls[Len(calls) - 1].c = "vaDestroyImage"
              /\ calls[Len(calls) - 2] = Call("vaDeriveImage", TRUE)
        /\ image.image_id = VA_INVALID_ID
        /\ ~is_derived
        /\ view_from = "none"
        /\ live = {}
        /\ ia_failed

\* After a va_surface_image_alloc that returned NULL on this surface, a later
\* one destroyed nothing (no image was stored) and returned an image.
C20_Witness ==
    /\ ia_failed
    /\ pc = "idle" /\ op = "va_surface_image_alloc_imgfmt" /\ result = "ok"
    /\ calls = <<Call("vaDeriveImage", FALSE), Call("vaCreateImage", TRUE)>>
    /\ image.image_id # VA_INVALID_ID /\ live = {image.image_id}

\* C17: a successful va_image_map gives the planes of the VAImage in the
\* driver's order, except that planes 1 and 2 (the second and third) change
\* places when the image's fourcc is YV12 and only then, I420 and IYUV
\* included among the others; for a fourcc that va_to_imgfmt does not list it
\* returns false without calling vaMapBuffer.
C17_SwapIffYV12 ==
    op = "va_image_map" =>
        /\ va_fourcc_to_imgfmt(image.fourcc) = IMGFMT_NONE
              => (result = "fail" /\ calls = << >> /\ ~mapped)
        /\ result = "ok" =>
              /\ calls = <<Call("vaMapBuffer", TRUE)>>
              /\ dst.imgfmt = va_fourcc_to_imgfmt(image.fourcc)
              /\ dst.planes = IF image.fourcc = VA_FOURCC_YV12
                              THEN <<imgbuf[1], imgbuf[3], imgbuf[2]>>
                              ELSE imgbuf
        /\ (result = "ok") <=> mapped

\* An I420 image, which is IMGFMT_420P as YV12 is, was mapped with its planes
\* in the driver's order.
C17_Witness ==
    /\ op = "va_image_map" /\ result = "ok" /\ mapped
    /\ image.fourcc = VA_FOURCC_I420
    /\ imgbuf = << <<3>>, <<1>>, <<2>> >>
    /\ dst = [imgfmt |-> IMGFMT_420P, planes |-> << <<3>>, <<1>>, <<2>> >>]

\* Every request made of the pool so far was for a surface of one same size.
SameRequests(req) ==
    \E size \in PoolSizes : req \subseteq {<<IMGFMT_VAAPI, size[1], size[2]>>}

\* C14: while every request to the pool is for a surface of one same width and
\* height, the surfaces vaCreateSurfaces made for the pool are never more than
\* the most surfaces held at one time (at most N for a caller that holds at
\* most N), and a request made while the pool has a surface that no caller
\* holds is served by that surface without any vaCreateSurfaces call.
C14_PoolRecycling ==
    [][ SameRequests(pool_req') =>
          /\ Len(pool') <= pool_peak'
          /\ pool_peak' <= MaxSurfaces
          /\ (op' = "mp_image_pool_get" /\ Referenced(pool) # 1..Len(pool))
                => ( /\ calls' = << >>
                     /\ result' = "ok"
                     /\ Len(pool') = Len(pool)
                     /\ Cardinality(Referenced(pool'))
                            = Cardinality(Referenced(pool)) + 1 ) ]_vars

\* After a warm-up of as many allocations as surfaces held at once, a request
\* was served from the pool with no driver call.
C14_Witness ==
    /\ SameRequests(pool_req) /\ pool_req # {}
    /\ Len(pool) = MaxSurfaces /\ pool_peak = MaxSurfaces
    /\ op = "mp_image_pool_get" /\ result = "ok" /\ calls = << >>
    /\ Referenced(pool) = {1}

====
